---- MODULE Spec2Model ----
(***************************************************************************)
(* A model of the WebVTT codec of src/src/lib.rs: the timestamp, settings, *)
(* cue and document grammars, each as a parser (from_str) and a formatter  *)
(* (Display).  Texts are strings; the std string and integer routines the  *)
(* code calls are modelled by what they compute, character by character.   *)
(***************************************************************************)
EXTENDS Integers, Sequences, FiniteSets, TLC

VARIABLES
    build,      \* "debug" (overflow checks on: a panic) or "release" (wrap)
    pc,         \* position of the caller: start, parsed, read, made, shown, reparsed, reshown
    text,       \* the text handed to from_str, None when the value was constructed
    val,        \* the Result of from_str, or Ok(v) for a value built in memory
    shown,      \* to_string() of the value in val
    reparsed,   \* the Result of from_str(shown)
    reshown     \* to_string() of the value in reparsed

vars == <<build, pc, text, val, shown, reparsed, reshown>>

(***************************************************************************)
(* Option and Result.  Every intermediate value is named once, as an       *)
(* operator parameter, so that no expression is evaluated twice.           *)
(***************************************************************************)
None == <<>>
Some(x) == <<x>>
IsSome(o) == o # <<>>
Unwrap(o) == o[1]
UnwrapOr(o, d) == IF o = <<>> THEN d ELSE o[1]

Ok(v) == [ok |-> TRUE, v |-> v, err |-> "", msg |-> ""]
Err(kind) == [ok |-> FALSE, v |-> <<>>, err |-> kind, msg |-> ""]
ErrMsg(kind, m) == [ok |-> FALSE, v |-> <<>>, err |-> kind, msg |-> m]
\* an arithmetic overflow with overflow checks on: the call does not return
Panic == [ok |-> FALSE, v |-> <<>>, err |-> "panic", msg |-> "arithmetic overflow"]

\* the ? operator: the value of an Ok goes on, an Err is returned as it is
AndThen(r, F(_)) == IF r.ok THEN F(r.v) ELSE r

\* Option::ok_or / Result::map_err(|_| e)
OkOr(o, e) == IF o = <<>> THEN Err(e) ELSE Ok(o[1])
OkOrMsg(o, e, m) == IF o = <<>> THEN ErrMsg(e, m) ELSE Ok(o[1])

(***************************************************************************)
(* std::str routines used by the parsers.                                  *)
(***************************************************************************)
Char(s, i) == SubSeq(s, i, i)

Min(S) == CHOOSE x \in S : \A y \in S : x <= y
Max(S) == CHOOSE x \in S : \A y \in S : y <= x
MinOr0(S) == IF S = {} THEN 0 ELSE Min(S)
MaxOr0(S) == IF S = {} THEN 0 ELSE Max(S)

\* char::is_whitespace, on the characters of the model's alphabet
IsWhitespace(c) == c \in {" ", "\t", "\n", "\r", "\f"}

\* str::find(pat): the index of the first match, 0 when there is none
Find(s, pat) ==
    MinOr0({i \in 1..(Len(s) - Len(pat) + 1) : SubSeq(s, i, i + Len(pat) - 1) = pat})

Contains(s, pat) == Find(s, pat) # 0

StartsWith(s, pat) == Len(s) >= Len(pat) /\ SubSeq(s, 1, Len(pat)) = pat
EndsWith(s, pat) ==
    Len(s) >= Len(pat) /\ SubSeq(s, Len(s) - Len(pat) + 1, Len(s)) = pat

\* str::strip_suffix
StripSuffix(s, pat) ==
    IF EndsWith(s, pat) THEN Some(SubSeq(s, 1, Len(s) - Len(pat))) ELSE None

\* str::split(pat): always at least one part
RECURSIVE Split(_, _)
SplitAt(s, pat, i) ==
    IF i = 0 THEN <<s>>
    ELSE <<SubSeq(s, 1, i - 1)>> \o Split(SubSeq(s, i + Len(pat), Len(s)), pat)
Split(s, pat) == SplitAt(s, pat, Find(s, pat))

\* str::split_once
SplitOnceAt(s, pat, i) ==
    IF i = 0 THEN None
    ELSE Some(<<SubSeq(s, 1, i - 1), SubSeq(s, i + Len(pat), Len(s))>>)
SplitOnce(s, pat) == SplitOnceAt(s, pat, Find(s, pat))

\* str::lines: split at each "\n", the "\n" and one "\r" before it removed;
\* a last line without "\n" is kept as it is, and a final "\n" opens no line
RECURSIVE Lines(_)
LinesAt(s, i) ==
    IF i = 0 THEN <<s>>
    ELSE <<UnwrapOr(StripSuffix(SubSeq(s, 1, i - 1), "\r"), SubSeq(s, 1, i - 1))>>
           \o Lines(SubSeq(s, i + 1, Len(s)))
Lines(s) == IF s = "" THEN <<>> ELSE LinesAt(s, Find(s, "\n"))

\* str::trim
NonWhitespace(s) == {i \in 1..Len(s) : ~IsWhitespace(Char(s, i))}
TrimStart(s) == SubSeq(s, Min(NonWhitespace(s) \cup {Len(s) + 1}), Len(s))
TrimEnd(s) == SubSeq(s, 1, MaxOr0(NonWhitespace(s)))
Trim(s) == TrimEnd(TrimStart(s))

\* str::split_whitespace: the maximal runs of non-whitespace characters
RECURSIVE SplitWhitespace(_)
\* t starts with a non-whitespace character; w is its first whitespace, or 0
FirstToken(t, w) ==
    IF w = 0 THEN <<t>>
    ELSE <<SubSeq(t, 1, w - 1)>> \o SplitWhitespace(SubSeq(t, w, Len(t)))
TokensOf(t) ==
    IF t = "" THEN <<>>
    ELSE FirstToken(t, MinOr0({i \in 1..Len(t) : IsWhitespace(Char(t, i))}))
SplitWhitespace(s) == TokensOf(TrimStart(s))

\* [&str]::join
RECURSIVE Join(_, _)
Join(parts, sep) ==
    IF parts = <<>> THEN ""
    ELSE IF Len(parts) = 1 THEN parts[1]
    ELSE parts[1] \o sep \o Join(Tail(parts), sep)

(***************************************************************************)
(* Unsigned integers wider than TLC's own: little-endian sequences       *)
(* of base-256 limbs without high zero limbs (zero is the empty sequence). *)
(* u32 is 4 limbs, u64 is 8, u128 is 16.                                   *)
(***************************************************************************)
Base == 2 ^ 8
U32Limbs == 4
U64Limbs == 8

RECURSIVE Norm(_)
Norm(a) ==
    IF a = <<>> THEN <<>>
    ELSE IF a[Len(a)] = 0 THEN Norm(SubSeq(a, 1, Len(a) - 1))
    ELSE a

\* a small natural as limbs
RECURSIVE Big(_)
Big(n) == IF n = 0 THEN <<>> ELSE <<n % Base>> \o Big(n \div Base)

\* a * c + carry, c and carry below 2^23
RECURSIVE MulAdd(_, _, _)
MulAddLimb(a, c, p) == <<p % Base>> \o MulAdd(Tail(a), c, p \div Base)
MulAdd(a, c, carry) ==
    IF a = <<>> THEN Big(carry) ELSE MulAddLimb(a, c, a[1] * c + carry)

BigMul(a, c) == Norm(MulAdd(a, c, 0))

RECURSIVE AddCarry(_, _, _)
AddLimb(a, b, t) ==
    <<t % Base>> \o AddCarry(SubSeq(a, 2, Len(a)), SubSeq(b, 2, Len(b)), t \div Base)
AddCarry(a, b, carry) ==
    IF a = <<>> /\ b = <<>> THEN Big(carry)
    ELSE AddLimb(a, b, (IF a = <<>> THEN 0 ELSE a[1])
                          + (IF b = <<>> THEN 0 ELSE b[1]) + carry)

BigAdd(a, b) == Norm(AddCarry(a, b, 0))

\* long division by a small c, from the high limb down: <<quotient, remainder>>
RECURSIVE DivRem(_, _)
DivRemLimb(hi, cur, c) == <<(<<cur \div c>>) \o hi[1], cur % c>>
DivRemLow(a, c, hi) == DivRemLimb(hi, hi[2] * Base + a[1], c)
DivRem(a, c) ==
    IF a = <<>> THEN <<(<<>>), 0>> ELSE DivRemLow(a, c, DivRem(Tail(a), c))

BigDiv(a, c) == Norm(DivRem(a, c)[1])
BigMod(a, c) == DivRem(a, c)[2]

Fits(a, limbs) == Len(a) <= limbs
\* the value modulo 2^(8 * limbs)
Wrap(a, limbs) == Norm(SubSeq(a, 1, IF Len(a) < limbs THEN Len(a) ELSE limbs))

RECURSIVE BigLess(_, _)
BigLess(a, b) ==
    IF Len(a) # Len(b) THEN Len(a) < Len(b)
    ELSE IF a = <<>> THEN FALSE
    ELSE IF a[Len(a)] # b[Len(b)] THEN a[Len(a)] < b[Len(b)]
    ELSE BigLess(SubSeq(a, 1, Len(a) - 1), SubSeq(b, 1, Len(b) - 1))

BigLeq(a, b) == a = b \/ BigLess(a, b)

\* limbs below 2^31 as an integer
RECURSIVE BigToInt(_)
BigToInt(a) == IF a = <<>> THEN 0 ELSE a[1] + Base * BigToInt(Tail(a))

(***************************************************************************)
(* Decimal text of integers: str::parse and the {} formatter.              *)
(***************************************************************************)
Digits == "0123456789"
IsDigit(c) == Len(c) = 1 /\ Contains(Digits, c)
DigitVal(c) == Find(Digits, c) - 1
DigitChar(d) == Char(Digits, d + 1)
AllDigits(s) == s # "" /\ \A i \in 1..Len(s) : IsDigit(Char(s, i))

\* the value of a digit string
RECURSIVE DecValue(_)
DecValue(s) ==
    IF s = "" THEN <<>>
    ELSE Norm(MulAdd(DecValue(SubSeq(s, 1, Len(s) - 1)), 10, DigitVal(Char(s, Len(s)))))

\* the text after an optional sign
Unsigned(s) == IF StartsWith(s, "+") THEN SubSeq(s, 2, Len(s)) ELSE s
Magnitude(s) == IF StartsWith(s, "-") THEN SubSeq(s, 2, Len(s)) ELSE Unsigned(s)

SomeIfFits(a, limbs) == IF Fits(a, limbs) THEN Some(a) ELSE None
ParseDigits(d, limbs) == IF AllDigits(d) THEN SomeIfFits(DecValue(d), limbs) ELSE None

\* str::parse::<uN>: an optional "+", then digits only; a value that does not
\* fit the type is an error.  None stands for the ParseIntError.
ParseUnsigned(s, limbs) == ParseDigits(Unsigned(s), limbs)

\* the {} text of an unsigned value
RECURSIVE BigToString(_)
BigToString(a) ==
    IF Fits(a, 1) /\ BigMod(a, Base) < 10 THEN DigitChar(BigMod(a, Base))
    ELSE BigToString(BigDiv(a, 10)) \o DigitChar(BigMod(a, 10))

\* the {:0w} text: zeros on the left up to width w, never cut
RECURSIVE PadZero(_, _)
PadZero(s, w) == IF Len(s) >= w THEN s ELSE PadZero("0" \o s, w)

(***************************************************************************)
(* std::time::Duration: whole seconds (u64) and nanoseconds below 10^9.    *)
(***************************************************************************)
Duration(secs, nanos) == [secs |-> secs, nanos |-> nanos]

\* Duration::from_millis(u64)
from_millis(ms) == Duration(BigDiv(ms, 1000), BigMod(ms, 1000) * 1000000)

\* Duration::as_millis() -> u128
as_millis(d) == BigAdd(BigMul(d.secs, 1000), Big(d.nanos \div 1000000))

(***************************************************************************)
(* Timestamp grammar.                                                      *)
(***************************************************************************)
\* VttTimestamp::new
VttTimestamp(d) == d

\* one u64 operation whose exact result is t: it panics with overflow checks
\* on, and wraps modulo 2^64 without them
U64Result(t, b) ==
    IF Fits(t, U64Limbs) THEN Ok(t)
    ELSE IF b = "release" THEN Ok(Wrap(t, U64Limbs))
    ELSE Panic

U64Mul(x, c, b) == U64Result(BigMul(x, c), b)
U64Add(x, y, b) == U64Result(BigAdd(x, y), b)

\* hours * 3_600_000 + minutes * 60_000 + seconds * 1_000 + milliseconds in
\* u64, the products first and the sums from the left
total_millis(hours, minutes, seconds, milliseconds, b) ==
    AndThen(U64Mul(hours, 3600000, b), LAMBDA t1 :
    AndThen(U64Mul(minutes, 60000, b), LAMBDA t2 :
    AndThen(U64Add(t1, t2, b), LAMBDA t3 :
    AndThen(U64Mul(seconds, 1000, b), LAMBDA t4 :
    AndThen(U64Add(t3, t4, b), LAMBDA t5 :
    U64Add(t5, milliseconds, b))))))

\* the fraction as it is parsed: "0" appended while it is shorter than 3
\* a fraction read as the integer it spells, without padding
PadMillisLiteral(millis_str) == millis_str

PadMillis(millis_str) ==
    IF Len(millis_str) >= 3 THEN millis_str
    ELSE millis_str \o SubSeq("000", 1, 3 - Len(millis_str))

SecondsMsAt(seconds_str, dot_pos) ==
    IF dot_pos # 0
    THEN AndThen(OkOr(ParseUnsigned(SubSeq(seconds_str, 1, dot_pos - 1), U64Limbs),
                      "InvalidSeconds"), LAMBDA seconds :
         AndThen(OkOr(ParseUnsigned(
                        PadMillis(SubSeq(seconds_str, dot_pos + 1, Len(seconds_str))),
                        U64Limbs),
                      "InvalidMilliseconds"), LAMBDA millis :
         Ok(<<seconds, millis>>)))
    ELSE AndThen(OkOr(ParseUnsigned(seconds_str, U64Limbs), "InvalidSeconds"),
                 LAMBDA seconds : Ok(<<seconds, <<>> >>))

parse_seconds_ms(seconds_str) == SecondsMsAt(seconds_str, Find(seconds_str, "."))

\* the two arms of from_str, on the colon-separated parts
HoursForm(parts, b) ==
    AndThen(OkOr(ParseUnsigned(parts[1], U64Limbs), "InvalidHours"), LAMBDA hours :
    AndThen(OkOr(ParseUnsigned(parts[2], U64Limbs), "InvalidMinutes"), LAMBDA minutes :
    AndThen(parse_seconds_ms(parts[3]), LAMBDA sm :
    AndThen(total_millis(hours, minutes, sm[1], sm[2], b), LAMBDA total :
    Ok(VttTimestamp(from_millis(total)))))))

MinutesForm(parts, b) ==
    AndThen(OkOr(ParseUnsigned(parts[1], U64Limbs), "InvalidMinutes"), LAMBDA minutes :
    AndThen(parse_seconds_ms(parts[2]), LAMBDA sm :
    AndThen(total_millis(<<>>, minutes, sm[1], sm[2], b), LAMBDA total :
    Ok(VttTimestamp(from_millis(total))))))

\* first, second and third are parts.next(): parts after the third are not read
TimestampOfParts(parts, b) ==
    IF Len(parts) < 2 THEN Err("InvalidFormat")
    ELSE IF Len(parts) >= 3 THEN HoursForm(parts, b)
    ELSE MinutesForm(parts, b)

\* <VttTimestamp as FromStr>::from_str
VttTimestamp_from_str(s, b) == TimestampOfParts(Split(s, ":"), b)

FmtMillis(total) ==
    PadZero(BigToString(BigDiv(total, 3600000)), 2)
      \o ":" \o PadZero(BigToString(Big(BigMod(total, 3600000) \div 60000)), 2)
      \o ":" \o PadZero(BigToString(Big(BigMod(total, 60000) \div 1000)), 2)
      \o "." \o PadZero(BigToString(Big(BigMod(total, 1000))), 3)

\* <VttTimestamp as Display>::fmt
VttTimestamp_fmt(self) == FmtMillis(as_millis(self))

(***************************************************************************)
(* Settings grammar.  A record has five optional fields; line is           *)
(* <<"Percentage", u32>>, <<"Number", i32>> or <<"Auto">>.                 *)
(***************************************************************************)
VttSettings(vertical, line, position, size, align) ==
    [vertical |-> vertical, line |-> line, position |-> position,
     size |-> size, align |-> align]

\* VttSettings::default()
VttSettings_default == VttSettings(None, None, None, None, None)

I32Min == -2147483647 - 1
I32MaxBig == Big(2147483647)

\* the magnitude of an i32 as limbs
I32Magnitude(n) ==
    IF n >= 0 THEN Big(n)
    ELSE IF n = I32Min THEN BigAdd(I32MaxBig, Big(1))
    ELSE Big(-n)

I32Of(neg, mag) ==
    IF BigLeq(mag, I32MaxBig) THEN Some(IF neg THEN -BigToInt(mag) ELSE BigToInt(mag))
    ELSE IF neg /\ mag = BigAdd(I32MaxBig, Big(1)) THEN Some(I32Min)
    ELSE None

ParseI32Digits(neg, d) == IF AllDigits(d) THEN I32Of(neg, DecValue(d)) ELSE None

\* str::parse::<i32>: an optional "+" or "-", then digits only, in range
ParseI32(s) == ParseI32Digits(StartsWith(s, "-"), Magnitude(s))

\* the {} text of an i32
I32ToString(n) ==
    IF n < 0 THEN "-" \o BigToString(I32Magnitude(n)) ELSE BigToString(Big(n))

VerticalOf(value) ==
    IF value = "rl" THEN Ok(Some("RightToLeft"))
    ELSE IF value = "lr" THEN Ok(Some("LeftToRight"))
    ELSE ErrMsg("InvalidSetting", "vertical:" \o value)

PercentageOf(stripped) ==
    AndThen(OkOrMsg(ParseUnsigned(stripped, U32Limbs), "InvalidSetting", "line percentage"),
            LAMBDA percent : Ok(Some(<<"Percentage", percent>>)))

NumberOf(value) ==
    AndThen(OkOrMsg(ParseI32(value), "InvalidSetting", "line number"),
            LAMBDA number : Ok(Some(<<"Number", number>>)))

LineOfStripped(value, stripped) ==
    IF IsSome(stripped) THEN PercentageOf(Unwrap(stripped)) ELSE NumberOf(value)

LineOf(value) ==
    IF value = "auto" THEN Ok(Some(<<"Auto">>))
    ELSE LineOfStripped(value, StripSuffix(value, "%"))

\* position and size: name is the key, and the text of the error
PercentOfStripped(stripped, name) ==
    IF IsSome(stripped)
    THEN AndThen(OkOrMsg(ParseUnsigned(Unwrap(stripped), U32Limbs), "InvalidSetting", name),
                 LAMBDA n : Ok(Some(n)))
    ELSE ErrMsg("InvalidSetting", name)

PercentOf(value, name) == PercentOfStripped(StripSuffix(value, "%"), name)

AlignOf(value) ==
    CASE value = "start" -> Ok(Some("Start"))
      [] value = "middle" -> Ok(Some("Middle"))
      [] value = "end" -> Ok(Some("End"))
      [] value = "left" -> Ok(Some("Left"))
      [] value = "right" -> Ok(Some("Right"))
      [] OTHER -> ErrMsg("InvalidSetting", "align:" \o value)

\* the match on the key
ApplyKeyValue(settings, key, value) ==
    CASE key = "vertical" ->
            AndThen(VerticalOf(value), LAMBDA x : Ok([settings EXCEPT !.vertical = x]))
      [] key = "line" ->
            AndThen(LineOf(value), LAMBDA x : Ok([settings EXCEPT !.line = x]))
      [] key = "position" ->
            AndThen(PercentOf(value, "position"),
                    LAMBDA x : Ok([settings EXCEPT !.position = x]))
      [] key = "size" ->
            AndThen(PercentOf(value, "size"), LAMBDA x : Ok([settings EXCEPT !.size = x]))
      [] key = "align" ->
            AndThen(AlignOf(value), LAMBDA x : Ok([settings EXCEPT !.align = x]))
      [] OTHER -> ErrMsg("InvalidSetting", "Unknown setting: " \o key)

\* a loop body that skips a token without a colon instead of failing on it
ApplySettingAtLenient(settings, setting, idx) ==
    IF idx = 0 THEN Ok(settings)
    ELSE ApplyKeyValue(settings, SubSeq(setting, 1, idx - 1),
                       SubSeq(setting, idx + 1, Len(setting)))

ApplySettingAt(settings, setting, idx) ==
    IF idx = 0 THEN ErrMsg("InvalidSetting", "Invalid setting format: " \o setting)
    ELSE ApplyKeyValue(settings, SubSeq(setting, 1, idx - 1),
                       SubSeq(setting, idx + 1, Len(setting)))

\* one pass of the loop of parse_settings: a Result holding the updated record
ApplySetting(settings, setting) == ApplySettingAt(settings, setting, Find(setting, ":"))

\* the loop of parse_settings over the remaining tokens: the first error ends it
RECURSIVE ApplySettings(_, _)
ApplySettings(settings, tokens) ==
    IF tokens = <<>> THEN Ok(settings)
    ELSE AndThen(ApplySetting(settings, Head(tokens)),
                 LAMBDA next : ApplySettings(next, Tail(tokens)))

parse_settings(settings_str) ==
    ApplySettings(VttSettings_default, SplitWhitespace(settings_str))

FmtVertical(vertical) ==
    IF vertical = "RightToLeft" THEN "vertical:rl" ELSE "vertical:lr"

\* a formatter that writes a percentage line without its percent sign
FmtLineNoPercent(line) ==
    CASE line[1] = "Percentage" -> "line:" \o BigToString(line[2])
      [] line[1] = "Number" -> "line:" \o I32ToString(line[2])
      [] line[1] = "Auto" -> "line:auto"

FmtLine(line) ==
    CASE line[1] = "Percentage" -> "line:" \o BigToString(line[2]) \o "%"
      [] line[1] = "Number" -> "line:" \o I32ToString(line[2])
      [] line[1] = "Auto" -> "line:auto"

FmtAlign(align) ==
    CASE align = "Start" -> "align:start"
      [] align = "Middle" -> "align:middle"
      [] align = "End" -> "align:end"
      [] align = "Left" -> "align:left"
      [] align = "Right" -> "align:right"

\* <VttSettings as Display>::fmt
VttSettings_fmt(self) ==
    Join((IF IsSome(self.vertical) THEN <<FmtVertical(Unwrap(self.vertical))>> ELSE <<>>)
         \o (IF IsSome(self.line) THEN <<FmtLine(Unwrap(self.line))>> ELSE <<>>)
         \o (IF IsSome(self.position)
             THEN <<"position:" \o BigToString(Unwrap(self.position)) \o "%">> ELSE <<>>)
         \o (IF IsSome(self.size)
             THEN <<"size:" \o BigToString(Unwrap(self.size)) \o "%">> ELSE <<>>)
         \o (IF IsSome(self.align) THEN <<FmtAlign(Unwrap(self.align))>> ELSE <<>>),
         " ")

(***************************************************************************)
(* Cue grammar.                                                            *)
(***************************************************************************)
VttCue(identifier, start, end, settings, payload) ==
    [identifier |-> identifier, start |-> start, end |-> end,
     settings |-> settings, payload |-> payload]

\* the settings after the end timestamp: None when no token follows it
SettingsOf(settings_str) ==
    IF settings_str # ""
    THEN AndThen(parse_settings(settings_str), LAMBDA settings : Ok(Some(settings)))
    ELSE Ok(None)

\* the right part of the timing line, split on whitespace
EndAndSettings(identifier, start, end_part_and_settings, payload, b) ==
    IF end_part_and_settings = <<>> THEN Err("InvalidFormat")
    ELSE AndThen(VttTimestamp_from_str(Head(end_part_and_settings), b), LAMBDA end :
         AndThen(SettingsOf(Join(Tail(end_part_and_settings), " ")), LAMBDA settings :
         Ok(VttCue(identifier, start, end, settings, payload))))

\* a split that reads the first two parts and lets further ones pass
TimingPartsLenient(identifier, timing_parts, payload, b) ==
    IF Len(timing_parts) < 2 THEN Err("InvalidFormat")
    ELSE AndThen(VttTimestamp_from_str(Trim(timing_parts[1]), b), LAMBDA start :
         EndAndSettings(identifier, start, SplitWhitespace(Trim(timing_parts[2])),
                        payload, b))

TimingParts(identifier, timing_parts, payload, b) ==
    IF Len(timing_parts) # 2 THEN Err("InvalidFormat")
    ELSE AndThen(VttTimestamp_from_str(Trim(timing_parts[1]), b), LAMBDA start :
         EndAndSettings(identifier, start, SplitWhitespace(Trim(timing_parts[2])),
                        payload, b))

\* from_str from the timing line on; the payload is the lines left, joined
CueOf(identifier, timing_line, payload_lines, b) ==
    TimingParts(identifier, Split(timing_line, "-->"), Join(payload_lines, "\n"), b)

CueOfLines(lines, b) ==
    IF lines = <<>> THEN Err("InvalidFormat")
    ELSE IF ~Contains(lines[1], "-->")
    THEN IF Len(lines) < 2 THEN Err("InvalidFormat")
         ELSE CueOf(Some(lines[1]), lines[2], SubSeq(lines, 3, Len(lines)), b)
    ELSE CueOf(None, lines[1], Tail(lines), b)

\* <VttCue as FromStr>::from_str
VttCue_from_str(s, b) == CueOfLines(Lines(s), b)

\* a formatter that leaves the settings out of the timing line
FmtCueSettingsDropped(settings_str) == ""

FmtCueSettings(settings_str) == IF settings_str # "" THEN " " \o settings_str ELSE ""

\* <VttCue as Display>::fmt
VttCue_fmt(self) ==
    (IF IsSome(self.identifier) THEN Unwrap(self.identifier) \o "\n" ELSE "")
      \o VttTimestamp_fmt(self.start) \o " --> " \o VttTimestamp_fmt(self.end)
      \o (IF IsSome(self.settings)
          THEN FmtCueSettings(VttSettings_fmt(Unwrap(self.settings))) ELSE "")
      \o "\n" \o Trim(self.payload)

(***************************************************************************)
(* Document grammar.  The metadata HashMap is a set of <<key, value>>      *)
(* pairs with distinct keys; its iteration order is any order.             *)
(***************************************************************************)
VttHeader(description, metadata) == [description |-> description, metadata |-> metadata]

WebVtt(header, cues) == [header |-> header, cues |-> cues]

\* an insert that keeps the value a key already has
InsertKeepFirst(metadata, key, value) ==
    IF \E e \in metadata : e[1] = key THEN metadata
    ELSE metadata \cup {<<key, value>>}

\* HashMap::insert
Insert(metadata, key, value) == {e \in metadata : e[1] # key} \cup {<<key, value>>}

\* the orders in which a map can be iterated
Orders(metadata) ==
    {o \in [1..Cardinality(metadata) -> metadata] :
        \A i, j \in 1..Cardinality(metadata) : o[i] = o[j] => i = j}

\* a push that drops a block that does not parse instead of failing
PushCueLenient(cues, cue_lines, b) ==
    IF VttCue_from_str(Join(cue_lines, "\n"), b).ok
    THEN Ok(Append(cues, VttCue_from_str(Join(cue_lines, "\n"), b).v))
    ELSE Ok(cues)

\* cues.push(VttCue::from_str(&cue_lines.join("\n"))?)
PushCue(cues, cue_lines, b) ==
    AndThen(VttCue_from_str(Join(cue_lines, "\n"), b), LAMBDA cue : Ok(Append(cues, cue)))

\* a loop that forgets the block still open at the end of the text
RECURSIVE CueLoopNoLast(_, _, _, _, _)
CueLoopNoLast(lines, i, cues, cue_lines, b) ==
    IF i > Len(lines) THEN Ok(cues)
    ELSE IF Trim(lines[i]) = ""
    THEN IF cue_lines # <<>>
         THEN AndThen(AndThen(VttCue_from_str(Join(cue_lines, "\n"), b),
                              LAMBDA cue : Ok(Append(cues, cue))),
                      LAMBDA pushed : CueLoopNoLast(lines, i + 1, pushed, <<>>, b))
         ELSE CueLoopNoLast(lines, i + 1, cues, cue_lines, b)
    ELSE CueLoopNoLast(lines, i + 1, cues, Append(cue_lines, lines[i]), b)

\* the loop over the lines after the metadata, from line i on, and the last
\* cue after it
RECURSIVE CueLoop(_, _, _, _, _)
CueLoop(lines, i, cues, cue_lines, b) ==
    IF i > Len(lines)
    THEN IF cue_lines # <<>> THEN PushCue(cues, cue_lines, b) ELSE Ok(cues)
    ELSE IF Trim(lines[i]) = ""
    THEN IF cue_lines # <<>>
         THEN AndThen(PushCue(cues, cue_lines, b),
                      LAMBDA pushed : CueLoop(lines, i + 1, pushed, <<>>, b))
         ELSE CueLoop(lines, i + 1, cues, cue_lines, b)
    ELSE CueLoop(lines, i + 1, cues, Append(cue_lines, lines[i]), b)

\* the metadata loop from line i on: Ok(<<metadata, the line the cues start at>>)
RECURSIVE MetadataLoop(_, _, _)
MetadataPair(lines, i, metadata, trimmed, kv) ==
    IF IsSome(kv)
    THEN MetadataLoop(lines, i + 1, Insert(metadata, Trim(kv[1][1]), Trim(kv[1][2])))
    ELSE ErrMsg("InvalidMetadataLine", trimmed)
MetadataLine(lines, i, metadata, trimmed) ==
    IF trimmed = "" THEN Ok(<<metadata, i + 1>>)
    ELSE MetadataPair(lines, i, metadata, trimmed, SplitOnce(trimmed, ":"))
MetadataLoop(lines, i, metadata) ==
    IF i > Len(lines) THEN Ok(<<metadata, i>>)
    ELSE MetadataLine(lines, i, metadata, Trim(lines[i]))

\* everything after WEBVTT on the first line
DescriptionOf(first_line) ==
    IF Len(first_line) > 6 THEN Some(Trim(SubSeq(first_line, 7, Len(first_line))))
    ELSE None

DocumentOf(lines, first_line, b) ==
    IF ~StartsWith(first_line, "WEBVTT") THEN Err("MissingHeader")
    ELSE AndThen(MetadataLoop(lines, 2, {}), LAMBDA m :
         AndThen(CueLoop(lines, m[2], <<>>, <<>>, b), LAMBDA cues :
         Ok(WebVtt(VttHeader(DescriptionOf(first_line), m[1]), cues))))

DocumentOfLines(lines, b) ==
    IF lines = <<>> THEN Err("InvalidFormat")
    ELSE DocumentOf(lines, Trim(lines[1]), b)

\* <WebVtt as FromStr>::from_str
WebVtt_from_str(s, b) == DocumentOfLines(Lines(s), b)

\* WebVtt::from_reader: the reader's bytes, None when they cannot be read as
\* UTF-8 text
WebVtt_from_reader(reader, b) ==
    AndThen(OkOr(reader, "InvalidFormat"), LAMBDA buffer : WebVtt_from_str(buffer, b))

RECURSIVE FmtMetadata(_)
FmtMetadata(order) ==
    IF order = <<>> THEN ""
    ELSE order[1][1] \o ": " \o order[1][2] \o "\n" \o FmtMetadata(Tail(order))

\* a writer that ends every cue, the last one too, with an empty line
RECURSIVE FmtCuesTrailing(_, _)
FmtCuesTrailing(cues, i) ==
    IF i > Len(cues) THEN ""
    ELSE VttCue_fmt(cues[i]) \o "\n\n" \o FmtCuesTrailing(cues, i + 1)

RECURSIVE FmtCues(_, _)
FmtCues(cues, i) ==
    IF i > Len(cues) THEN ""
    ELSE (IF i > 1 THEN "\n\n" ELSE "") \o VttCue_fmt(cues[i]) \o FmtCues(cues, i + 1)

\* <WebVtt as Display>::fmt, the metadata iterated in the given order
WebVtt_fmt(self, order) ==
    (IF IsSome(self.header.description)
     THEN "WEBVTT " \o Unwrap(self.header.description) \o "\n"
     ELSE "WEBVTT\n")
      \o FmtMetadata(order)
      \o "\n"
      \o FmtCues(self.cues, 1)

(***************************************************************************)
(* The caller: one value taken through from_str and to_string.             *)
(***************************************************************************)
Init ==
    /\ build \in {"debug", "release"}
    /\ pc = "start"
    /\ text = None
    /\ val = None
    /\ shown = None
    /\ reparsed = None
    /\ reshown = None

(***************************************************************************)
(* Timestamp texts and values the caller hands in.                         *)
(***************************************************************************)
\* the largest number of colon-separated parts of a timestamp text
MaxParts == 4

HoursTexts ==
    {"0", "00", "01", "7", "100", "5124095576030", "5124095576031",
     "18446744073709551615", "18446744073709551616", "", "x", "+1"}
MinutesTexts == {"00", "23", "59", "7", "99", "x", "307445734561826"}
SecondsTexts == {"00", "45", "59", "5", "x", "18446744073709552"}
FractionTexts == {"", "5", "05", "000", "678", "999", "1234", "x", "+"}
SecondsMsTexts ==
    SecondsTexts \cup {s \o "." \o f : s \in SecondsTexts, f \in FractionTexts}

\* parts after the third
RECURSIVE ExtraParts(_)
ExtraParts(n) == IF n = 0 THEN "" ELSE ":99" \o ExtraParts(n - 1)

TsTextsOf(n) ==
    IF n = 1 THEN HoursTexts \cup SecondsMsTexts
    ELSE IF n = 2 THEN {m \o ":" \o s : m \in MinutesTexts, s \in SecondsMsTexts}
    ELSE IF n = 3
    THEN {h \o ":" \o m \o ":" \o s :
            h \in HoursTexts, m \in MinutesTexts, s \in SecondsMsTexts}
    ELSE {h \o ":" \o m \o ":" \o s \o ExtraParts(n - 3) :
            h \in {"01", "x"}, m \in {"23", "x"}, s \in {"45.678", "45", "x.5"}}

TsTexts == UNION {TsTextsOf(n) : n \in 1..MaxParts}

U64Max == DecValue("18446744073709551615")

TsDurations ==
    {Duration(s, n) :
        s \in {Big(0), Big(1), Big(5025), Big(360000), Big(3599), U64Max},
        n \in {0, 1, 678000000, 999999, 999999999}}

TsFromStr ==
    /\ pc = "start"
    /\ \E s \in TsTexts :
        /\ text' = Some(s)
        /\ val' = VttTimestamp_from_str(s, build)
    /\ pc' = "parsed"
    /\ UNCHANGED <<build, shown, reparsed, reshown>>

TsNew ==
    /\ pc = "start"
    /\ \E d \in TsDurations : val' = Ok(VttTimestamp(d))
    /\ pc' = "made"
    /\ UNCHANGED <<build, text, shown, reparsed, reshown>>

TsToString ==
    /\ pc \in {"parsed", "made"}
    /\ val.ok
    /\ shown' = Some(VttTimestamp_fmt(val.v))
    /\ pc' = "shown"
    /\ UNCHANGED <<build, text, val, reparsed, reshown>>

TsFromStrAgain ==
    /\ pc = "shown"
    /\ reparsed' = VttTimestamp_from_str(Unwrap(shown), build)
    /\ pc' = "reparsed"
    /\ UNCHANGED <<build, text, val, shown, reshown>>

TsToStringAgain ==
    /\ pc = "reparsed"
    /\ reparsed.ok
    /\ reshown' = Some(VttTimestamp_fmt(reparsed.v))
    /\ pc' = "reshown"
    /\ UNCHANGED <<build, text, val, shown, reparsed>>

TsNext == TsFromStr \/ TsNew \/ TsToString \/ TsFromStrAgain \/ TsToStringAgain

SpecTimestamp == Init /\ [][TsNext]_vars

(***************************************************************************)
(* Settings texts and records the caller hands in.                         *)
(***************************************************************************)
\* the largest number of tokens of a settings text
MaxTokens == 2

ValidTokens ==
    {"vertical:rl", "vertical:lr", "line:auto", "line:90%", "line:-5", "line:+5%",
     "line:2147483647", "position:50%", "position:150%", "position:4294967295%",
     "size:40%", "align:middle", "align:start"}
InvalidTokens ==
    {"foo:bar", "nocolon", ":", "vertical:xx", "vertical:", "align:center",
     "position:50", "position:x%", "position:%", "size:40", "size:x%",
     "line:x", "line:x%", "line:-5%", "line:", "position:4294967296%",
     "line:2147483648"}
SettingsTokens == ValidTokens \cup InvalidTokens

\* the token lists of exactly n tokens, single spaces between them
RECURSIVE TokenTexts(_)
TokenTexts(n) ==
    IF n = 0 THEN {""}
    ELSE IF n = 1 THEN SettingsTokens
    ELSE {t \o " " \o rest : t \in SettingsTokens, rest \in TokenTexts(n - 1)}

SettingsTexts ==
    UNION {TokenTexts(n) : n \in 0..MaxTokens}
      \cup {"  size:40%\tvertical:lr  ", " \t ", "align:end\nline:auto", " foo:bar "}

U32Max == DecValue("4294967295")

SettingsRecords ==
    {VttSettings(v, l, p, s, a) :
        v \in {None, Some("RightToLeft"), Some("LeftToRight")},
        l \in {None, Some(<<"Auto">>)}
                \cup {Some(<<"Percentage", n>>) : n \in {Big(0), Big(90), U32Max}}
                \cup {Some(<<"Number", n>>) : n \in {-5, 0, 2147483647, I32Min}},
        p \in {None, Some(Big(0)), Some(Big(50)), Some(U32Max)},
        s \in {None, Some(Big(40)), Some(Big(100))},
        a \in {None} \cup {Some(x) : x \in {"Start", "Middle", "End", "Left", "Right"}}}

SettingsFromStr ==
    /\ pc = "start"
    /\ \E s \in SettingsTexts :
        /\ text' = Some(s)
        /\ val' = parse_settings(s)
    /\ pc' = "parsed"
    /\ UNCHANGED <<build, shown, reparsed, reshown>>

SettingsNew ==
    /\ pc = "start"
    /\ \E r \in SettingsRecords : val' = Ok(r)
    /\ pc' = "made"
    /\ UNCHANGED <<build, text, shown, reparsed, reshown>>

SettingsToString ==
    /\ pc \in {"parsed", "made"}
    /\ val.ok
    /\ shown' = Some(VttSettings_fmt(val.v))
    /\ pc' = "shown"
    /\ UNCHANGED <<build, text, val, reparsed, reshown>>

SettingsFromStrAgain ==
    /\ pc = "shown"
    /\ reparsed' = parse_settings(Unwrap(shown))
    /\ pc' = "reparsed"
    /\ UNCHANGED <<build, text, val, shown, reshown>>

SettingsToStringAgain ==
    /\ pc = "reparsed"
    /\ reparsed.ok
    /\ reshown' = Some(VttSettings_fmt(reparsed.v))
    /\ pc' = "reshown"
    /\ UNCHANGED <<build, text, val, shown, reparsed>>

SettingsNext ==
    \/ SettingsFromStr
    \/ SettingsNew
    \/ SettingsToString
    \/ SettingsFromStrAgain
    \/ SettingsToStringAgain

SpecSettings == Init /\ [][SettingsNext]_vars

(***************************************************************************)
(* Cue texts and values the caller hands in.                               *)
(***************************************************************************)
\* the largest number of lines of a cue text
MaxCueLines == 3

CueLineTexts ==
    {"id1", "", "  Subtitle text  ", "Second",
     "00:00:00.000 --> 00:00:05.000",
     "  00:01.5   -->   00:02 line:90%  align:middle  ",
     "00:01.000 -->", "00:01 --> 00:02 --> 00:03",
     "x:00 --> 00:02", "00:01 --> 00:0y", "00:01 --> 00:02 foo:bar"}

\* the texts of exactly n lines, "\n" between them
RECURSIVE CueTextsOf(_)
CueTextsOf(n) ==
    IF n = 0 THEN {""}
    ELSE IF n = 1 THEN CueLineTexts
    ELSE {l \o "\n" \o rest : l \in CueLineTexts, rest \in CueTextsOf(n - 1)}

CueTexts ==
    UNION {CueTextsOf(n) : n \in 0..MaxCueLines}
      \cup {"id1\r\n00:01.000 --> 00:02.000\r\nline one\r\nline two\r\n",
            "00:01.000 --> 00:02.000 \n\n",
            "5124095576031:00:00.000 --> 00:02.000\nlate",
            "x:00 -->", "id1\n00:0y -->  \nSecond"}

CueIdentifiers == {None, Some(""), Some("id1"), Some("a --> b"), Some("id\n2"), Some("id\r")}
CueStarts ==
    {Duration(Big(0), 0), Duration(Big(1), 678000000), Duration(Big(0), 1),
     Duration(U64Max, 0)}
CueEnds == {Duration(Big(5), 0), Duration(Big(5025), 678000000), Duration(Big(5), 999999)}
CueSettings ==
    {None, Some(VttSettings_default),
     Some(VttSettings(None, Some(<<"Percentage", Big(90)>>), Some(Big(50)), None,
                      Some("Middle"))),
     Some(VttSettings(Some("LeftToRight"), Some(<<"Number", -5>>), None,
                      Some(Big(40)), None))}
CuePayloads == {"", "Subtitle text", "a\nb", " x ", "a\n\nb", "a\r\nb", "a\rb"}

CueValues ==
    {VttCue(i, s, e, st, p) :
        i \in CueIdentifiers, s \in CueStarts, e \in CueEnds, st \in CueSettings,
        p \in CuePayloads}

CueFromStr ==
    /\ pc = "start"
    /\ \E s \in CueTexts :
        /\ text' = Some(s)
        /\ val' = VttCue_from_str(s, build)
    /\ pc' = "parsed"
    /\ UNCHANGED <<build, shown, reparsed, reshown>>

CueNew ==
    /\ pc = "start"
    /\ \E c \in CueValues : val' = Ok(c)
    /\ pc' = "made"
    /\ UNCHANGED <<build, text, shown, reparsed, reshown>>

CueToString ==
    /\ pc \in {"parsed", "made"}
    /\ val.ok
    /\ shown' = Some(VttCue_fmt(val.v))
    /\ pc' = "shown"
    /\ UNCHANGED <<build, text, val, reparsed, reshown>>

CueFromStrAgain ==
    /\ pc = "shown"
    /\ reparsed' = VttCue_from_str(Unwrap(shown), build)
    /\ pc' = "reparsed"
    /\ UNCHANGED <<build, text, val, shown, reshown>>

CueToStringAgain ==
    /\ pc = "reparsed"
    /\ reparsed.ok
    /\ reshown' = Some(VttCue_fmt(reparsed.v))
    /\ pc' = "reshown"
    /\ UNCHANGED <<build, text, val, shown, reparsed>>

CueNext ==
    \/ CueFromStr
    \/ CueNew
    \/ CueToString
    \/ CueFromStrAgain
    \/ CueToStringAgain

SpecCue == Init /\ [][CueNext]_vars

(***************************************************************************)
(* Document texts and values the caller hands in.                          *)
(***************************************************************************)
\* the largest number of lines after the first line of a document text
MaxDocLines == 4

FirstLineTexts ==
    {"WEBVTT", "WEBVTT Test", " WEBVTT\t", "WEBVTTx - y", "INVALID HEADER", "webvtt", ""}

DocLineTexts ==
    {"", "Language: en", "NoColon", "id1\r\r\r",
     "00:00:01.000 --> 00:00:05.000",
     "x:00 --> 00:02",
     "00:07 --> 00:10 foo:bar"}

\* the texts of exactly n lines after the text so far
RECURSIVE DocBodies(_)
DocBodies(n) ==
    IF n = 0 THEN {""}
    ELSE {"\n" \o l \o rest : l \in DocLineTexts, rest \in DocBodies(n - 1)}

\* each first line over a few bodies, the empty text, and whole documents
ReaderTexts ==
    {first \o body :
        first \in FirstLineTexts,
        body \in {"", "\n", "\n\n00:01:02.000 --> 00:03:04.000\nHello, world!",
                  "\nKind: a\nKind : b\nLanguage:en\n\n\n \nid\n00:01 --> 00:02"}}
      \cup {"",
            "WEBVTT\r\n\r\n00:01:02.000 --> 00:03:04.000\r\nHello, world!\r\n\r\n00:03:05.000 --> 00:03:08.000\r\nSecond subtitle\r\n",
            "WEBVTT\n\n00:01:02.000 --> 00:03:04.000\nHello, world!\n\n00:03:05.000 --> 00:03:08.000 line:90% align:end\nSecond\n subtitle \n\n\n",
            "WEBVTT\n\n00:01.000 --> 00:02.000\none\n\n \n\n00:03.000 --> 00:04.000\ntwo",
            "WEBVTT\n\n00:01.000 --> 00:02.000\none\r\r\ntwo\r",
            "WEBVTT\n \t\n00:00:01.000 --> 00:00:05.000\n  Test  \n \t\n00:07 --> 00:10\n  Test  ",
            "WEBVTT\n\n00:01 --> 00:02\nok\n\n00:07 --> 00:10 foo:bar\n\nx:00 --> 00:02",
            "WEBVTT\n\n5124095576031:00:00.000 --> 00:02.000\nlate\n\nx:00 --> 00:02"}

DocTexts ==
    {"WEBVTT" \o body : body \in UNION {DocBodies(n) : n \in 0..MaxDocLines}}
      \cup ReaderTexts

DocCues ==
    {VttCue(None, Duration(Big(1), 0), Duration(Big(5), 0), None, "Test"),
     VttCue(Some("2"), Duration(Big(7), 0), Duration(Big(10), 0),
            Some(VttSettings(None, Some(<<"Auto">>), None, None, Some("End"))),
            "Second Line\n more ")}

DocValues ==
    {WebVtt(VttHeader(d, m), c) :
        d \in {None, Some("Test")},
        m \in {{}, {<<"Language", "en">>}, {<<"Language", "en">>, <<"Kind", "captions">>}},
        c \in UNION {[1..n -> DocCues] : n \in 0..2}}

DocFromStr ==
    /\ pc = "start"
    /\ \E s \in DocTexts :
        /\ text' = Some(s)
        /\ val' = WebVtt_from_str(s, build)
    /\ pc' = "parsed"
    /\ UNCHANGED <<build, shown, reparsed, reshown>>

\* the reader holds a text, or bytes that are not UTF-8
DocFromReader ==
    /\ pc = "start"
    /\ \E reader \in {None} \cup {Some(s) : s \in ReaderTexts} :
        /\ text' = reader
        /\ val' = WebVtt_from_reader(reader, build)
    /\ pc' = "read"
    /\ UNCHANGED <<build, shown, reparsed, reshown>>

DocNew ==
    /\ pc = "start"
    /\ \E d \in DocValues : val' = Ok(d)
    /\ pc' = "made"
    /\ UNCHANGED <<build, text, shown, reparsed, reshown>>

DocToString ==
    /\ pc \in {"parsed", "made"}
    /\ val.ok
    /\ \E order \in Orders(val.v.header.metadata) :
        shown' = Some(WebVtt_fmt(val.v, order))
    /\ pc' = "shown"
    /\ UNCHANGED <<build, text, val, reparsed, reshown>>

DocFromStrAgain ==
    /\ pc = "shown"
    /\ reparsed' = WebVtt_from_str(Unwrap(shown), build)
    /\ pc' = "reparsed"
    /\ UNCHANGED <<build, text, val, shown, reshown>>

DocToStringAgain ==
    /\ pc = "reparsed"
    /\ reparsed.ok
    /\ \E order \in Orders(reparsed.v.header.metadata) :
        reshown' = Some(WebVtt_fmt(reparsed.v, order))
    /\ pc' = "reshown"
    /\ UNCHANGED <<build, text, val, shown, reparsed>>

DocNext ==
    \/ DocFromStr
    \/ DocFromReader
    \/ DocNew
    \/ DocToString
    \/ DocFromStrAgain
    \/ DocToStringAgain

SpecDocument == Init /\ [][DocNext]_vars

(***************************************************************************)
(* Properties of the timestamp grammar.                                    *)
(***************************************************************************)
\* the value of a text of at most 6 digits
SmallValue(s) == BigMod(DecValue(s), 1000000)

TwoDigitsBelow60(s) == Len(s) = 2 /\ AllDigits(s) /\ SmallValue(s) <= 59

\* SS.mmm
IsSecondsMs(s) ==
    /\ Len(s) = 6
    /\ TwoDigitsBelow60(SubSeq(s, 1, 2))
    /\ Char(s, 3) = "."
    /\ AllDigits(SubSeq(s, 4, 6))

\* H+:MM:SS.mmm
IsFullForm(s) ==
    LET p == Split(s, ":")
    IN  /\ Len(p) = 3
        /\ AllDigits(p[1])
        /\ TwoDigitsBelow60(p[2])
        /\ IsSecondsMs(p[3])

\* the same with the hours on at least two digits
IsPaddedForm(s) == IsFullForm(s) /\ Len(Split(s, ":")[1]) >= 2

\* hours * 3_600_000 + minutes * 60_000 + seconds * 1_000 + millis, unbounded
FullFormMillis(s) ==
    LET p == Split(s, ":")
    IN  BigAdd(BigMul(DecValue(p[1]), 3600000),
               Big(SmallValue(p[2]) * 60000 + SmallValue(SubSeq(p[3], 1, 2)) * 1000
                     + SmallValue(SubSeq(p[3], 4, 6))))

\* C1: every text H+:MM:SS.mmm parses, and formatting the result gives the
\* zero-padded form with the same millisecond value; every formatted
\* timestamp has minutes and seconds in 0..59 and milliseconds in 0..999.
C1_ParseFormatKeepsValue ==
    /\ (pc # "start" /\ IsSome(text) /\ IsFullForm(Unwrap(text))) =>
          /\ val.ok
          /\ IsSome(shown) =>
                /\ IsPaddedForm(Unwrap(shown))
                /\ FullFormMillis(Unwrap(shown)) = FullFormMillis(Unwrap(text))
    /\ IsSome(shown) => IsPaddedForm(Unwrap(shown))

\* C2: a text with one part, or with four or more, is rejected with
\* InvalidFormat; only two or three parts are accepted.
C2_OtherPartCountsRejected ==
    (pc # "start" /\ IsSome(text) /\ Len(Split(Unwrap(text), ":")) \notin {2, 3}) =>
        (~val.ok /\ val.err = "InvalidFormat")

(***************************************************************************)
(* Properties of the settings grammar.                                     *)
(***************************************************************************)
\* C3: a settings record written out and parsed back is the same record.
C3_SettingsRoundTrip ==
    (pc \in {"reparsed", "reshown"} /\ ~IsSome(text)) =>
        (reparsed.ok /\ reparsed.v = val.v)

C3_Witness ==
    /\ pc = "reparsed"
    /\ ~IsSome(text)
    /\ reparsed.ok
    /\ val.v.line = Some(<<"Number", -5>>)
    /\ val.v.position = Some(U32Max)
    /\ IsSome(val.v.vertical) /\ IsSome(val.v.size) /\ IsSome(val.v.align)

C3_WitnessEmpty ==
    pc = "reparsed" /\ ~IsSome(text) /\ val.v = VttSettings_default /\ reparsed.ok

\* an integer in text: digits after an optional sign
IsSignedInteger(s) ==
    AllDigits(IF StartsWith(s, "-") \/ StartsWith(s, "+") THEN SubSeq(s, 2, Len(s)) ELSE s)
IsUnsignedInteger(s) == AllDigits(IF StartsWith(s, "+") THEN SubSeq(s, 2, Len(s)) ELSE s)

\* a token outside the grammar of section 4.2
IsMalformedToken(t) ==
    LET i == Find(t, ":")
        key == SubSeq(t, 1, i - 1)
        value == SubSeq(t, i + 1, Len(t))
        number == SubSeq(value, 1, Len(value) - 1)
        percent == Len(value) >= 1 /\ Char(value, Len(value)) = "%"
    IN  \/ i = 0
        \/ key \notin {"vertical", "line", "position", "size", "align"}
        \/ key = "vertical" /\ value \notin {"rl", "lr"}
        \/ key = "align" /\ value \notin {"start", "middle", "end", "left", "right"}
        \/ key \in {"position", "size"} /\ (~percent \/ ~IsSignedInteger(number))
        \/ key = "line" /\ value # "auto"
              /\ ~(percent /\ IsUnsignedInteger(number))
              /\ ~IsSignedInteger(value)

HasMalformedToken(s) ==
    \E i \in 1..Len(SplitWhitespace(s)) : IsMalformedToken(SplitWhitespace(s)[i])

\* C4: a settings text with a malformed token anywhere in it gives an
\* InvalidSetting error and no record.
C4_NoTokenIgnored ==
    (pc = "parsed" /\ IsSome(text) /\ HasMalformedToken(Unwrap(text))) =>
        (~val.ok /\ val.err = "InvalidSetting" /\ val.v = <<>>)

\* a valid token first, the malformed one after it
C4_Witness ==
    /\ pc = "parsed"
    /\ IsSome(text)
    /\ Len(SplitWhitespace(Unwrap(text))) = 2
    /\ ~IsMalformedToken(SplitWhitespace(Unwrap(text))[1])
    /\ IsMalformedToken(SplitWhitespace(Unwrap(text))[2])
    /\ val.err = "InvalidSetting"

(***************************************************************************)
(* Properties of the cue grammar.                                          *)
(***************************************************************************)
\* the identifier is absent, or one line without the timing separator
IsPlainIdentifier(identifier) ==
    ~IsSome(identifier)
      \/ (~Contains(Unwrap(identifier), "\n") /\ ~Contains(Unwrap(identifier), "-->"))

\* no whitespace at either end, and no line without text
IsPlainPayload(payload) ==
    /\ payload = "" \/ (~IsWhitespace(Char(payload, 1))
                          /\ ~IsWhitespace(Char(payload, Len(payload))))
    /\ \A i \in 1..Len(Split(payload, "\n")) :
          payload = "" \/ Trim(Split(payload, "\n")[i]) # ""

\* a whole number of milliseconds that fits 64 bits
IsWholeMillis(d) == d.nanos % 1000000 = 0 /\ Fits(as_millis(d), U64Limbs)

\* C5: a cue with a plain identifier, a plain payload and any settings field,
\* written out and parsed back, is the same cue.
C5_CueRoundTrip ==
    (pc \in {"reparsed", "reshown"}
        /\ IsPlainIdentifier(val.v.identifier)
        /\ IsPlainPayload(val.v.payload)) =>
        (reparsed.ok /\ reparsed.v = val.v)

\* C5, amended: the same for a cue whose identifier does not end in a carriage
\* return, whose payload has no carriage return before a line break, whose
\* settings are absent or have a field present, and whose start and end are
\* whole milliseconds that fit 64 bits.
C5_CueRoundTripAmended ==
    (pc \in {"reparsed", "reshown"}
        /\ IsPlainIdentifier(val.v.identifier)
        /\ (IsSome(val.v.identifier) => ~EndsWith(Unwrap(val.v.identifier), "\r"))
        /\ IsPlainPayload(val.v.payload)
        /\ ~Contains(val.v.payload, "\r\n")
        /\ val.v.settings # Some(VttSettings_default)
        /\ IsWholeMillis(val.v.start)
        /\ IsWholeMillis(val.v.end)) =>
        (reparsed.ok /\ reparsed.v = val.v)

\* a made cue with an identifier, settings and a payload of two lines
C5_Witness ==
    /\ pc = "reparsed"
    /\ ~IsSome(text)
    /\ val.v.identifier = Some("id1")
    /\ IsSome(val.v.settings) /\ IsSome(Unwrap(val.v.settings).line)
    /\ val.v.payload = "a\nb"
    /\ IsWholeMillis(val.v.start) /\ val.v.start.nanos # 0
    /\ IsWholeMillis(val.v.end)
    /\ reparsed.ok /\ reparsed.v = val.v

\* C9: the payload of a parsed cue is the lines after the timing line joined
\* by line breaks, with the whitespace at both ends removed.
C9_PayloadTrimmed ==
    (pc = "parsed" /\ val.ok) =>
        LET lines == Lines(Unwrap(text))
            timing == IF Contains(lines[1], "-->") THEN 1 ELSE 2
        IN  val.v.payload = Trim(Join(SubSeq(lines, timing + 1, Len(lines)), "\n"))

(***************************************************************************)
(* Properties of the document grammar.                                     *)
(***************************************************************************)
\* the text before the first line break
FirstLineOf(s) == IF Find(s, "\n") = 0 THEN s ELSE SubSeq(s, 1, Find(s, "\n") - 1)

IsBlank(line) == Trim(line) = ""

\* the line that ends the metadata block: the first blank line after the
\* first line, or one past the last line
MetadataEnd(lines) ==
    Min({i \in 2..Len(lines) : IsBlank(lines[i])} \cup {Len(lines) + 1})

\* the first lines of the maximal runs of non-blank lines after the metadata
RunStarts(lines) ==
    {i \in (MetadataEnd(lines) + 1)..Len(lines) :
        ~IsBlank(lines[i]) /\ IsBlank(lines[i - 1])}

\* the last line of the run that starts at line i
RunEnd(lines, i) ==
    Min({j \in i..Len(lines) : j = Len(lines) \/ IsBlank(lines[j + 1])})

\* what the cue grammar makes of the run that starts at line i
RunResult(lines, i, b) ==
    VttCue_from_str(Join(SubSeq(lines, i, RunEnd(lines, i)), "\n"), b)

\* the place of the run that starts at line i among the runs
RunIndex(lines, i) == Cardinality({j \in RunStarts(lines) : j <= i})

\* C6: a text whose first line does not start with WEBVTT, the empty text
\* included, gives MissingHeader from from_str and from from_reader.
C6_MissingHeaderReported ==
    (pc \in {"parsed", "read"} /\ IsSome(text)
        /\ ~StartsWith(FirstLineOf(Unwrap(text)), "WEBVTT")) =>
        (~val.ok /\ val.err = "MissingHeader")

\* C7: a parsed document has one cue per maximal run of non-blank lines after
\* the metadata block, in the order of the runs.
C7_OneCuePerRun ==
    (pc = "parsed" /\ val.ok) =>
        LET lines == Lines(Unwrap(text))
        IN  /\ Len(val.v.cues) = Cardinality(RunStarts(lines))
            /\ \A i \in RunStarts(lines) :
                  val.v.cues[RunIndex(lines, i)] = RunResult(lines, i, build).v

\* two runs with three blank lines between them and none after the last
C7_Witness ==
    /\ pc = "parsed"
    /\ val.ok
    /\ Len(val.v.cues) = 2
    /\ val.v.cues[1].payload = "one"
    /\ val.v.cues[2].payload = "two"
    /\ Contains(Unwrap(text), "\n\n \n\n")
    /\ EndsWith(Unwrap(text), "two")

\* the first empty line of a written text after its first line, or one past
\* the last line
FirstEmpty(ls) == Min({i \in 2..Len(ls) : ls[i] = ""} \cup {Len(ls) + 1})

\* the lines between the first line and the first empty line, as a set
MetadataLinesOf(t) == {Split(t, "\n")[i] : i \in 2..(FirstEmpty(Split(t, "\n")) - 1)}

\* the lines from the first empty line on
AfterMetadata(t) ==
    SubSeq(Split(t, "\n"), FirstEmpty(Split(t, "\n")), Len(Split(t, "\n")))

\* two written documents that differ at most in the order of the metadata lines
SameUpToMetadataOrder(t1, t2) ==
    /\ FirstLineOf(t1) = FirstLineOf(t2)
    /\ MetadataLinesOf(t1) = MetadataLinesOf(t2)
    /\ FirstEmpty(Split(t1, "\n")) = FirstEmpty(Split(t2, "\n"))
    /\ AfterMetadata(t1) = AfterMetadata(t2)

\* C8: the text written from a parsed text parses, and writing it again gives
\* the same text up to the order of the metadata lines.
C8_NormalizationIdempotent ==
    /\ (pc \in {"reparsed", "reshown"} /\ IsSome(text)) => reparsed.ok
    /\ (pc = "reshown" /\ IsSome(text)) =>
          SameUpToMetadataOrder(Unwrap(shown), Unwrap(reshown))

\* the metadata lines without a colon
BadMetadataLines(lines) ==
    {i \in 2..(MetadataEnd(lines) - 1) : ~Contains(lines[i], ":")}

\* the runs the cue grammar rejects
FailingRuns(lines, b) == {i \in RunStarts(lines) : ~RunResult(lines, i, b).ok}

\* C10: a document is returned only if every block parses; otherwise the
\* result is the failure of the first failing block, and a header or
\* metadata error comes before any failure of a block.
C10_FirstFailureReported ==
    (pc = "parsed" /\ Unwrap(text) # "") =>
        LET lines == Lines(Unwrap(text))
            header == StartsWith(Trim(lines[1]), "WEBVTT")
            metadata == BadMetadataLines(lines) = {}
            failing == FailingRuns(lines, build)
        IN  /\ val.ok <=> (header /\ metadata /\ failing = {})
            /\ ~header => val.err = "MissingHeader"
            /\ (header /\ ~metadata) => val.err = "InvalidMetadataLine"
            /\ (header /\ metadata /\ failing # {}) =>
                  val = RunResult(lines, Min(failing), build)

\* a block that parses, then one with an unknown setting, then one with bad
\* minutes: the unknown setting is what is reported
C10_Witness ==
    /\ pc = "parsed"
    /\ ~val.ok
    /\ Cardinality(FailingRuns(Lines(Unwrap(text)), build)) = 2
    /\ Min(RunStarts(Lines(Unwrap(text)))) \notin FailingRuns(Lines(Unwrap(text)), build)
    /\ val.err = "InvalidSetting"
    /\ val.msg = "Unknown setting: foo"

\* the first line of a written document
WrittenHeader(header) ==
    IF IsSome(header.description) THEN "WEBVTT " \o Unwrap(header.description)
    ELSE "WEBVTT"

\* the first line, the metadata lines in the given order and the empty line,
\* each ended by a line break
WrittenHead(header, order) ==
    Join(<<WrittenHeader(header)>>
           \o [i \in 1..Len(order) |-> order[i][1] \o ": " \o order[i][2]]
           \o <<"", "">>,
         "\n")

\* C11: a written document is the WEBVTT line with the description if there is
\* one, a "key: value" line per metadata entry, an empty line, and the cues'
\* texts in order with one empty line between two of them and nothing after
\* the last.
C11_WrittenLayout ==
    (pc = "shown") =>
        \E order \in Orders(val.v.header.metadata) :
            Unwrap(shown) =
                WrittenHead(val.v.header, order)
                  \o Join([i \in 1..Len(val.v.cues) |-> VttCue_fmt(val.v.cues[i])], "\n\n")

\* a made document with a description, two metadata entries and two cues
C11_Witness ==
    /\ pc = "shown"
    /\ ~IsSome(text)
    /\ val.v.header.description = Some("Test")
    /\ Cardinality(val.v.header.metadata) = 2
    /\ Len(val.v.cues) = 2
    /\ EndsWith(Unwrap(shown), "Second Line\n more")
    /\ Contains(Unwrap(shown), "\nTest\n\n2\n00:00:07.000")

\* absent, or at most 100
IsPercent(o) == ~IsSome(o) \/ BigLeq(Unwrap(o), Big(100))

\* C12: a record returned by parse_settings has position and size, when
\* present, and a percentage line in 0..100.
C12_PercentagesInRange ==
    (pc = "parsed" /\ val.ok) =>
        /\ IsPercent(val.v.position)
        /\ IsPercent(val.v.size)
        /\ (IsSome(val.v.line) /\ Unwrap(val.v.line)[1] = "Percentage") =>
              BigLeq(Unwrap(val.v.line)[2], Big(100))

(***************************************************************************)
(* More properties of the cue grammar.                                     *)
(***************************************************************************)
\* the place of the timing line of a block: the second line after an
\* identifier line, else the first
TimingIndex(lines) == IF Contains(lines[1], "-->") THEN 1 ELSE 2

\* the parts of the timing line around the timing separator
TimingPartsOf(lines) == Split(lines[TimingIndex(lines)], "-->")

\* what C13 says of a block, the start timestamp of a timing line with nothing
\* after the separator being read first or not
IdentifierAndTiming(lines, startFirst, b) ==
    /\ val.ok =>
          /\ val.v.identifier =
                (IF Contains(lines[1], "-->") THEN None ELSE Some(lines[1]))
          /\ val.v.start = VttTimestamp_from_str(Trim(TimingPartsOf(lines)[1]), b).v
          /\ (val.v.settings = None)
                <=> (Len(SplitWhitespace(TimingPartsOf(lines)[2])) = 1)
    /\ (lines = <<>> \/ Len(lines) < TimingIndex(lines)) =>
          (~val.ok /\ val.err = "InvalidFormat")
    /\ (lines # <<>> /\ Len(lines) >= TimingIndex(lines)) =>
          /\ Len(TimingPartsOf(lines)) # 2 => (~val.ok /\ val.err = "InvalidFormat")
          /\ (/\ Len(TimingPartsOf(lines)) = 2
              /\ Trim(TimingPartsOf(lines)[2]) = ""
              /\ startFirst =>
                    VttTimestamp_from_str(Trim(TimingPartsOf(lines)[1]), b).ok) =>
                (~val.ok /\ val.err = "InvalidFormat")

\* C13: the first line is the identifier exactly when it has no "-->"; no
\* timing line, a timing line that does not split on "-->" into two parts, or
\* one with nothing after "-->" gives InvalidFormat; the settings are absent
\* exactly when no token follows the end timestamp.
C13_IdentifierAndTiming ==
    (pc = "parsed") => IdentifierAndTiming(Lines(Unwrap(text)), FALSE, build)

\* C13, amended: the same, a timing line with nothing after "-->" giving
\* InvalidFormat when the start timestamp before it parses.
C13_IdentifierAndTimingAmended ==
    (pc = "parsed") => IdentifierAndTiming(Lines(Unwrap(text)), TRUE, build)

\* an identifier line, a timing line with settings, a payload line
C13_Witness ==
    /\ pc = "parsed"
    /\ val.ok
    /\ val.v.identifier = Some("id1")
    /\ IsSome(val.v.settings)
    /\ val.v.payload = "Second"

\* a timing line with a start that parses and nothing after "-->"
C13_WitnessNoEnd ==
    /\ pc = "parsed"
    /\ Unwrap(text) = "id1\n00:01.000 -->"
    /\ val.err = "InvalidFormat"

(***************************************************************************)
(* More properties of the document grammar.                                *)
(***************************************************************************)
\* the trimmed text before the first colon of a line, and the one after it
KeyOf(line) == Trim(SubSeq(line, 1, Find(line, ":") - 1))
ValueOf(line) == Trim(SubSeq(line, Find(line, ":") + 1, Len(line)))

\* the entries of the lines between the first line and the first blank line,
\* the last line of a key giving its value
MetadataOf(lines) ==
    {<<KeyOf(lines[i]), ValueOf(lines[i])>> :
        i \in {j \in 2..(MetadataEnd(lines) - 1) :
                 \A k \in (j + 1)..(MetadataEnd(lines) - 1) :
                     KeyOf(lines[k]) # KeyOf(lines[j])}}

\* C14: the lines between the WEBVTT line and the first blank line are
\* metadata: each is split at its first colon into a trimmed key and value,
\* the last value of a key is kept, a line without a colon gives
\* InvalidMetadataLine with the trimmed line, and none of them makes a cue.
C14_MetadataBlock ==
    (pc = "parsed" /\ Unwrap(text) # ""
        /\ StartsWith(Trim(Lines(Unwrap(text))[1]), "WEBVTT")) =>
        LET lines == Lines(Unwrap(text))
        IN  /\ BadMetadataLines(lines) # {} =>
                  /\ ~val.ok
                  /\ val.err = "InvalidMetadataLine"
                  /\ val.msg = Trim(lines[Min(BadMetadataLines(lines))])
            /\ val.ok =>
                  /\ val.v.header.metadata = MetadataOf(lines)
                  /\ \A e, f \in val.v.header.metadata : e[1] = f[1] => e = f
                  /\ Len(val.v.cues) = Cardinality(RunStarts(lines))

\* a key given twice and a metadata line with "-->" in it
C14_Witness ==
    /\ pc = "parsed"
    /\ val.ok
    /\ val.v.header.metadata = {<<"Kind", "b">>, <<"Language", "en">>}
    /\ Len(val.v.cues) = 1

\* a line with "-->" before the first blank line
C14_WitnessTiming ==
    /\ pc = "parsed"
    /\ val.ok
    /\ val.v.header.metadata = {<<"00", "00:01.000 --> 00:00:05.000">>}
    /\ val.v.cues = <<>>

(***************************************************************************)
(* More properties of the timestamp grammar.                               *)
(***************************************************************************)
\* a text that is no number: not digits after an optional sign
IsNonNumeric(s) == ~IsSignedInteger(s)

\* a text that reads as an unsigned 64-bit integer
IsU64Text(s) == IsUnsignedInteger(s) /\ Fits(DecValue(Unsigned(s)), U64Limbs)

\* the text before the dot of a seconds part, and the one after it
SecondsOf(s) == IF Find(s, ".") = 0 THEN s ELSE SubSeq(s, 1, Find(s, ".") - 1)
FractionOf(s) == SubSeq(s, Find(s, ".") + 1, Len(s))

\* C15: a timestamp of two or three parts never fails with InvalidFormat, and
\* the first part that is no number, in the order hours, minutes, seconds,
\* milliseconds, is the one the error names.
C15_FailingFieldNamed ==
    (pc = "parsed" /\ Len(Split(Unwrap(text), ":")) \in {2, 3}) =>
        LET p == Split(Unwrap(text), ":")
            hours == Len(p) = 2 \/ IsU64Text(p[1])
            minutes == p[Len(p) - 1]
            seconds == p[Len(p)]
        IN  /\ val.err # "InvalidFormat"
            /\ (Len(p) = 3 /\ IsNonNumeric(p[1])) => val.err = "InvalidHours"
            /\ (hours /\ IsNonNumeric(minutes)) => val.err = "InvalidMinutes"
            /\ (hours /\ IsU64Text(minutes) /\ IsNonNumeric(SecondsOf(seconds))) =>
                  val.err = "InvalidSeconds"
            /\ (/\ hours
                /\ IsU64Text(minutes)
                /\ IsU64Text(SecondsOf(seconds))
                /\ Contains(seconds, ".")
                /\ IsNonNumeric(FractionOf(seconds))) =>
                  val.err = "InvalidMilliseconds"

\* at most three digits
IsShortNumber(s) == AllDigits(s) /\ Len(s) <= 3

\* the milliseconds of the parts before the fraction, for short numbers
WholeSecondsMillis(p) ==
    BigAdd(IF Len(p) = 3 THEN BigMul(DecValue(p[1]), 3600000) ELSE Big(0),
           Big(SmallValue(p[Len(p) - 1]) * 60000
                 + SmallValue(SecondsOf(p[Len(p)])) * 1000))

\* a fraction of one to three digits, padded on the right to three
PaddedFraction(f) == SmallValue(f) * 10 ^ (3 - Len(f))

\* C16: without a fraction the milliseconds are 0; a fraction of one or two
\* digits counts as if padded on the right with zeros to three digits, one of
\* three digits as it is; an accepted fraction of at most three characters
\* gives milliseconds in 0..999.
C16_FractionPadded ==
    (/\ pc = "parsed"
     /\ Len(Split(Unwrap(text), ":")) \in {2, 3}
     /\ \A i \in 1..(Len(Split(Unwrap(text), ":")) - 1) :
           IsShortNumber(Split(Unwrap(text), ":")[i])
     /\ IsShortNumber(SecondsOf(Split(Unwrap(text), ":")[Len(Split(Unwrap(text), ":"))]))) =>
        LET p == Split(Unwrap(text), ":")
            seconds == p[Len(p)]
            fraction == FractionOf(seconds)
        IN  /\ ~Contains(seconds, ".") =>
                  (val.ok /\ as_millis(val.v) = WholeSecondsMillis(p))
            /\ (Contains(seconds, ".") /\ IsShortNumber(fraction)) =>
                  /\ val.ok
                  /\ as_millis(val.v)
                        = BigAdd(WholeSecondsMillis(p), Big(PaddedFraction(fraction)))
            /\ (Contains(seconds, ".") /\ Len(fraction) <= 3 /\ val.ok) =>
                  /\ BigLeq(WholeSecondsMillis(p), as_millis(val.v))
                  /\ BigLeq(as_millis(val.v), BigAdd(WholeSecondsMillis(p), Big(999)))

\* a fraction of two digits with a leading zero: .05 is 50 milliseconds
C16_Witness ==
    /\ pc = "parsed"
    /\ EndsWith(Unwrap(text), ":45.05")
    /\ Len(Split(Unwrap(text), ":")) = 3
    /\ val.ok
    /\ BigMod(as_millis(val.v), 60000) = 45050

\* hours*3_600_000 + minutes*60_000 + seconds*1_000 + millis of the parts of
\* a text, as an unbounded integer
ExactMillis(p) ==
    BigAdd(BigAdd(IF Len(p) = 3 THEN BigMul(DecValue(Unsigned(p[1])), 3600000) ELSE Big(0),
                  BigMul(DecValue(Unsigned(p[Len(p) - 1])), 60000)),
           BigAdd(BigMul(DecValue(Unsigned(SecondsOf(p[Len(p)]))), 1000),
                  IF Contains(p[Len(p)], ".")
                  THEN Big(PaddedFraction(FractionOf(p[Len(p)]))) ELSE Big(0)))

\* C17: a text whose hours, minutes, seconds and milliseconds each read as an
\* unsigned 64-bit integer parses, to exactly
\* hours*3_600_000 + minutes*60_000 + seconds*1_000 + millis milliseconds.
C17_ExactTotal ==
    (/\ pc = "parsed"
     /\ Len(Split(Unwrap(text), ":")) \in {2, 3}
     /\ \A i \in 1..(Len(Split(Unwrap(text), ":")) - 1) :
           IsU64Text(Split(Unwrap(text), ":")[i])
     /\ IsU64Text(SecondsOf(Split(Unwrap(text), ":")[Len(Split(Unwrap(text), ":"))]))
     /\ Contains(Unwrap(text), ".") =>
           IsShortNumber(FractionOf(Split(Unwrap(text), ":")[Len(Split(Unwrap(text), ":"))]))) =>
        (val.ok /\ as_millis(val.v) = ExactMillis(Split(Unwrap(text), ":")))

====
